---- MODULE Spec2Model ----
(***************************************************************************)
(* Model of the call-ms dispatch engine (msx-node.js): msx, retry, send_,  *)
(* callOnceOnly, handleResponse, getLocation and getRoutingTable; and of   *)
(* reqret of msx-browser.js with the send_ it calls.                       *)
(*                                                                         *)
(* JavaScript strings are sequences of one-character strings, so that      *)
(* startsWith, substring, indexOf, toLowerCase and template literals are   *)
(* computed as the code computes them.  JavaScript values are records of   *)
(* one shape (see Val).  A dispatch is one call of msx (or of retry); the  *)
(* dispatches are the callers' ones (Calls) and the '--routes' dispatches  *)
(* that getRoutingTable starts (Boots), one slot per owner.                *)
(***************************************************************************)
EXTENDS Integers, Sequences, FiniteSets, TLC

(***************************************************************************)
(* Bounds of the model.                                                    *)
(***************************************************************************)
\* Spec: the callers' dispatches and the events of the transport in a run
MaxCalls == 2
MaxSignals == 2
\* SpecPopulated: the events of the transport in a run
PopSignals == 5
\* SpecGuard: the invocations of one wrapper of callOnceOnly
MaxInvocations == 3
\* the schedules given to retry: their length and their greatest delay
MaxLen == 2
MaxDelay == 2

(***************************************************************************)
(* Strings.                                                                *)
(***************************************************************************)
S_once == <<"o","n","c","e",":">>
S_routes == <<"-","-","r","o","u","t","e","s">>
S_mailer == <<"m","a","i","l","e","r">>
S_users == <<"u","s","e","r","s">>
S_noroute1 == <<"E","r","r","o","r"," ","-"," ","n","o"," ","r","o","u","t","e"," ","t","o"," ">>
S_noroute2 == <<" ","f","o","u","n","d">>
defaultMsg == <<"F","a","i","l","e","d"," ","t","o"," ","c","o","m","p","l","e","t","e","."," ","P","l","e","a","s","e"," ","t","r","y"," ","a","g","a","i","n"," ","a","f","t","e","r"," ","s","o","m","e"," ","t","i","m","e",".">>
S_busy == <<"b","u","s","y">>

\* response bodies the transport may hand to handleResponse
B_empty == <<>>
B_text == <<"n","o","t"," ","f","o","u","n","d">>
B_objmsg == <<"{","\"","m","s","g","\"",":","\"","b","u","s","y","\"","}">>
B_objnomsg == <<"{","\"","a","\"",":","1","}">>
B_num == <<"5">>
B_null == <<"n","u","l","l">>
B_html == <<"<","H","T","M","L",">","<","b","o","d","y",">","x","<","/","b","o","d","y",">","<","/","h","t","m","l",">">>
B_pre == <<"<","p","r","e",">","x","<","/","p","r","e",">">>
B_objnoretry == <<"{","\"","m","s","g","\"",":","\"","b","u","s","y","\"",",","\"","n","o","r","e","t","r","y","\"",":","t","r","u","e","}">>
B_three == <<"<","P","R","E",">","x","<","/","p","r","e",">","<","d","i","v",">">>
\* call-ms.js: window.location.protocol + '//' + window.location.host, and
\* the locations the services redirect to
S_origin == <<"h","t","t","p",":","/","/","h">>
S_locA == <<"h","t","t","p",":","/","/","a">>
S_locB == <<"h","t","t","p",":","/","/","b","/">>
B_locA == S_locA
B_objloc == <<"{","\"","m","s","g","\"",":","\"">> \o S_locB \o <<"\"","}">>
B_objredirect == <<"{","\"","m","s","g","\"",":","\"">> \o S_locA \o <<"\"",",","\"","r","e","d","i","r","e","c","t","\"",":","t","r","u","e","}">>
B_objempty == <<"{","\"","m","s","g","\"",":","\"","\"","}">>
B_routes0 == <<"[","]">>
B_routes1 == <<"[","{","\"","t","y","p","e","\"",":","\"","m","a","i","l","e","r","\"",",","\"","p","o","r","t","\"",":","1","}","]">>
B_routes2 == <<"[","{","\"","t","y","p","e","\"",":","\"","m","a","i","l","e","r","\"",",","\"","p","o","r","t","\"",":","1","}",",","{","\"","t","y","p","e","\"",":","\"","u","s","e","r","s","\"",",","\"","p","o","r","t","\"",":","2","}","]">>

Bodies == {B_empty, B_text, B_objmsg, B_objnomsg, B_objnoretry, B_num, B_null,
           B_html, B_pre, B_three, B_routes0, B_routes1, B_routes2}

Statuses == {0, 200, 201, 404, 500, 504}

\* the responses (status, body) the services of the model give
Responses == {<<200, B_routes1>>, <<200, B_routes2>>, <<200, B_null>>,
              <<500, B_text>>, <<404, B_html>>, <<500, B_objnomsg>>}

\* String.prototype.startsWith
StartsWith(s, p) == Len(s) >= Len(p) /\ SubSeq(s, 1, Len(p)) = p

\* String.prototype.substring(n)
Substring(s, n) == SubSeq(s, n + 1, Len(s))

\* String.prototype.indexOf(p) != -1
Contains(s, p) ==
  \E i \in 1..(Len(s) - Len(p) + 1) : SubSeq(s, i, i + Len(p) - 1) = p

UpperToLower ==
  [c \in {"A","B","C","D","E","F","G","H","I","J","K","L","M","N","O","P","Q",
          "R","S","T","U","V","W","X","Y","Z"} |->
     CASE c = "A" -> "a" [] c = "B" -> "b" [] c = "C" -> "c" [] c = "D" -> "d"
       [] c = "E" -> "e" [] c = "F" -> "f" [] c = "G" -> "g" [] c = "H" -> "h"
       [] c = "I" -> "i" [] c = "J" -> "j" [] c = "K" -> "k" [] c = "L" -> "l"
       [] c = "M" -> "m" [] c = "N" -> "n" [] c = "O" -> "o" [] c = "P" -> "p"
       [] c = "Q" -> "q" [] c = "R" -> "r" [] c = "S" -> "s" [] c = "T" -> "t"
       [] c = "U" -> "u" [] c = "V" -> "v" [] c = "W" -> "w" [] c = "X" -> "x"
       [] c = "Y" -> "y" [] c = "Z" -> "z"]

\* String.prototype.toLowerCase
ToLowerCase(s) ==
  [i \in 1..Len(s) |-> IF s[i] \in DOMAIN UpperToLower THEN UpperToLower[s[i]] ELSE s[i]]

(***************************************************************************)
(* JavaScript values.  t is the type of the value; the other fields are    *)
(* the properties the code reads or writes.  msgk says what the msg        *)
(* property holds: "none" (undefined), "str" (the string msg) or "num".    *)
(***************************************************************************)
Val(t, msgk, msg, noretry, timeout, routes) ==
  [t |-> t, msgk |-> msgk, msg |-> msg, noretry |-> noretry,
   timeout |-> timeout, routes |-> routes]

Undefined == Val("undefined", "none", <<>>, FALSE, FALSE, <<>>)
Null == Val("null", "none", <<>>, FALSE, FALSE, <<>>)
Num == Val("num", "none", <<>>, FALSE, FALSE, <<>>)
MsgObj(m) == Val("obj", "str", m, FALSE, FALSE, <<>>)
PlainObj == Val("obj", "none", <<>>, FALSE, FALSE, <<>>)
Arr(rs) == Val("arr", "none", <<>>, FALSE, FALSE, rs)
\* the Error object of the request's 'error' event
ErrorObj == Val("error", "none", <<>>, FALSE, FALSE, <<>>)
\* the exception e that a catch clause receives
ExceptionObj == Val("exception", "none", <<>>, FALSE, FALSE, <<>>)
\* the string that msx of msx-browser.js gives its callback in catch
StringErr == Val("str", "str", defaultMsg, FALSE, FALSE, <<>>)
\* { timeout: true }
TimeoutObj == Val("obj", "none", <<>>, FALSE, TRUE, <<>>)

Route(type, port) == [type |-> type, port |-> port]

\* !v : null, undefined are falsy; objects (arrays, errors) and 5 are truthy
Falsy(v) == v.t \in {"undefined", "null"}

\* JSON.parse on the bodies of the model: ok = FALSE is the SyntaxError
JSONparse(raw) ==
  CASE raw = B_objmsg -> [ok |-> TRUE, val |-> MsgObj(S_busy)]
    [] raw = B_objnomsg -> [ok |-> TRUE, val |-> PlainObj]
    [] raw = B_objnoretry ->
         [ok |-> TRUE, val |-> [MsgObj(S_busy) EXCEPT !.noretry = TRUE]]
    [] raw = B_objloc -> [ok |-> TRUE, val |-> MsgObj(S_locB)]
    [] raw = B_objredirect -> [ok |-> TRUE, val |-> MsgObj(S_locA)]
    [] raw = B_objempty -> [ok |-> TRUE, val |-> MsgObj(<<>>)]
    [] raw = B_num -> [ok |-> TRUE, val |-> Num]
    [] raw = B_null -> [ok |-> TRUE, val |-> Null]
    [] raw = B_routes0 -> [ok |-> TRUE, val |-> Arr(<<>>)]
    [] raw = B_routes1 -> [ok |-> TRUE, val |-> Arr(<<Route(S_mailer, 1)>>)]
    [] raw = B_routes2 ->
         [ok |-> TRUE, val |-> Arr(<<Route(S_mailer, 1), Route(S_users, 2)>>)]
    [] OTHER -> [ok |-> FALSE, val |-> Undefined]

(***************************************************************************)
(* handleResponse.  The result says what handleResponse does with its      *)
(* callback: out = "ok" is cb(null, val), out = "err" is cb(val), and      *)
(* out = "throw" is a TypeError raised before the callback is called.      *)
(***************************************************************************)
HtmlMarkers ==
  << <<"<","h","t","m","l">>, <<"<","/","h","t","m","l",">">>,
     <<"<","h","e","a","d"," ">>, <<"<","/","h","e","a","d",">">>,
     <<"<","b","o","d","y">>, <<"<","/","b","o","d","y",">">>,
     <<"<","p","r","e">>, <<"<","/","p","r","e",">">>,
     <<"<","s","p","a","n",">">>, <<"<","/","s","p","a","n",">">>,
     <<"<","d","i","v",">">>, <<"<","/","d","i","v",">">> >>

\* variant: more than three hits are needed
is_html_1_four(msg) ==
  LET m == ToLowerCase(msg)
      numhits == Cardinality({k \in 1..Len(HtmlMarkers) : Contains(m, HtmlMarkers[k])})
  IN numhits > 3

is_html_1(msg) ==
  LET m == ToLowerCase(msg)
      numhits == Cardinality({k \in 1..Len(HtmlMarkers) : Contains(m, HtmlMarkers[k])})
  IN numhits > 2

handleResponse(status, body) ==
  LET parsed == JSONparse(body)
      resp == IF body = <<>> THEN MsgObj(defaultMsg)
              ELSE IF parsed.ok THEN parsed.val
              ELSE MsgObj(body)
      setnoretry == status # 0 /\ status # 500
      \* resp.noretry = true throws on null and, in strict mode, on a number
      resp1 == IF setnoretry THEN [resp EXCEPT !.noretry = TRUE] ELSE resp
  IN IF status = 200 THEN [out |-> "ok", val |-> resp]
     ELSE IF setnoretry /\ resp.t \in {"null", "num"}
       THEN [out |-> "throw", val |-> Undefined]
     \* resp.msg of null throws; msg.toLowerCase throws unless msg is a string
     ELSE IF resp.t = "null" \/ resp.msgk # "str"
       THEN [out |-> "throw", val |-> Undefined]
     ELSE IF is_html_1(resp1.msg)
       THEN [out |-> "err", val |-> [resp1 EXCEPT !.msg = defaultMsg]]
     ELSE [out |-> "err", val |-> resp1]

(***************************************************************************)
(* State.                                                                  *)
(*   disp          the dispatches: per dispatch the arguments of msx or    *)
(*                 retry, the attempts of send_ that wait in getLocation   *)
(*                 (lookups), the http requests made (reqs), the attempts  *)
(*                 whose callOnceOnly wrapper has fired (called), what the *)
(*                 wrapper passed on last (aerr) and how often it did not  *)
(*                 (ndisc), the pending setTimeout timers, what the        *)
(*                 dispatch's callback has received (ncb, err, res), and   *)
(*                 whether an exception is on its way up the stack of the  *)
(*                 calls made for it (thrown)                              *)
(*   ROUTING_TABLE the module variable of that name                        *)
(*   crashed       an exception has left an event handler uncaught         *)
(*   nboot         number of calls of getRoutingTable so far               *)
(*   nsignals      number of events the requests have emitted so far       *)
(*   runtime       "node": msx-node.js is loaded; "browser": msx-browser.js *)
(*   bdisp         the dispatches of msx-browser.js (see reqret below)     *)
(*   hr            one call of handleResponse: its arguments and what it   *)
(*                 did with its callback (see HandleResponse below)        *)
(*   invs          the invocations made of one wrapper of callOnceOnly,    *)
(*                 in order (see Invoke below)                             *)
(*   LOCATIONS     the variable of that name of call-ms.js                 *)
(*   cdisp         the calls of get, post and retry of call-ms.js (see     *)
(*                 cms_retry below)                                        *)
(***************************************************************************)
VARIABLES disp, ROUTING_TABLE, crashed, nboot, nsignals, runtime, bdisp, hr,
          invs, LOCATIONS, cdisp

nodevars == <<disp, ROUTING_TABLE, crashed, nboot, nsignals>>
cmsvars == <<LOCATIONS, cdisp>>
vars == <<disp, ROUTING_TABLE, crashed, nboot, nsignals, runtime, bdisp, hr,
          invs, LOCATIONS, cdisp>>

Calls == 1..MaxCalls
\* owner 0 is the call of getRoutingTable at module load
Owners == {0} \cup Calls
C(c) == <<"call", c>>
B(o) == <<"boot", o>>
DispIds == {C(c) : c \in Calls} \cup {B(o) : o \in Owners}
IsBoot(d) == d[1] = "boot"

\* let ROUTING_TABLE (undefined), and ROUTING_TABLE = {}
RtUndefined == [defined |-> FALSE, map |-> <<>>]
RtEmpty == [defined |-> TRUE, map |-> <<>>]

\* url.parse('http://localhost:' + port); port 0 stands for no port
Url(port) == [t |-> "url", hostname |-> "localhost", port |-> port]
UrlUndefined == [t |-> "undefined", hostname |-> "", port |-> 0]
ROUTING_TABLE_URL == Url(0)
rt_1(port) == Url(port)

Fresh ==
  [started |-> FALSE, type |-> <<>>, stype |-> <<>>, schedule |-> <<>>,
   viaRetry |-> FALSE, lookups |-> {}, reqs |-> {}, called |-> {},
   timers |-> {}, ncb |-> 0, err |-> Undefined, res |-> Undefined,
   nsend |-> 0, delays |-> <<>>, oatt |-> 0, aerr |-> Undefined, ndisc |-> 0,
   params |-> "null", thrown |-> FALSE]

World == [disp |-> disp, rt |-> ROUTING_TABLE, crashed |-> crashed,
          nboot |-> nboot]

ApplyNode(w) ==
  /\ disp' = w.disp
  /\ ROUTING_TABLE' = w.rt
  \* an exception that nothing has caught ends the handler uncaught
  /\ crashed' = (w.crashed \/ \E d \in DispIds : w.disp[d].thrown)
  /\ nboot' = w.nboot

Apply(w) == ApplyNode(w) /\ UNCHANGED <<runtime, bdisp, hr, invs, cmsvars>>

DefaultSchedule == <<1, 5, 15, 25>>

(***************************************************************************)
(* The callbacks, innermost first.                                         *)
(***************************************************************************)
\* the caller's callback cb(err, res) of a dispatch of Calls
user_cb(w, d, err, res) ==
  [w EXCEPT !.disp[d].ncb = @ + 1, !.disp[d].err = err, !.disp[d].res = res]

\* ROUTING_TABLE[route.type] = rt_1(route.port) for the routes in order
RECURSIVE fill_table(_, _)
fill_table(map, routes) ==
  IF routes = <<>> THEN map
  ELSE LET r == Head(routes)
           m == [t \in (DOMAIN map) \cup {r.type} |->
                   IF t = r.type THEN rt_1(r.port) ELSE map[t]]
       IN fill_table(m, Tail(routes))

\* ROUTING_TABLE[type]
table_get(rt, type) ==
  IF type \in DOMAIN rt.map THEN rt.map[type] ELSE UrlUndefined

\* variant: the delay is the checkpoint itself, nothing subtracted
retryafter_nosub(schedule, ndx) == schedule[ndx + 1]

\* retryafter of call_ndx_1: schedule[ndx], less schedule[ndx-1] if ndx
retryafter(schedule, ndx) ==
  IF ndx # 0 THEN schedule[ndx + 1] - schedule[ndx] ELSE schedule[ndx + 1]

RECURSIVE callOnceOnly(_, _, _, _, _)

\* variant: the no-route error does not carry noretry
send_to_url_1_retryable(w, d, ndx, url_) ==
  IF url_.t = "undefined"
  THEN callOnceOnly(w, d, ndx,
         MsgObj(S_noroute1 \o w.disp[d].stype \o S_noroute2), Undefined)
  ELSE [w EXCEPT !.disp[d].reqs = @ \cup
          {[ndx |-> ndx, hostname |-> url_.hostname, port |-> url_.port,
            path |-> <<"/">> \o w.disp[d].stype, aborted |-> FALSE]}]

\* send_to_url_1 of the attempt ndx of dispatch d
send_to_url_1(w, d, ndx, url_) ==
  IF url_.t = "undefined"
  THEN callOnceOnly(w, d, ndx,
         [MsgObj(S_noroute1 \o w.disp[d].stype \o S_noroute2) EXCEPT !.noretry = TRUE],
         Undefined)
  \* JSON.stringify(params) throws on a circular structure
  ELSE IF w.disp[d].params = "circular" THEN [w EXCEPT !.disp[d].thrown = TRUE]
  ELSE [w EXCEPT !.disp[d].reqs = @ \cup
          {[ndx |-> ndx, hostname |-> url_.hostname, port |-> url_.port,
            path |-> <<"/">> \o w.disp[d].stype, aborted |-> FALSE]}]

\* (err, url_) => ... of send_, for the attempt ndx of dispatch d
send_cb(w, d, ndx, err, url_) ==
  IF ~Falsy(err) THEN callOnceOnly(w, d, ndx, err, Undefined)
  ELSE send_to_url_1(w, d, ndx, url_)

\* err => ... of getLocation, for the attempt ndx of dispatch d
getLocation_cb(w, d, ndx, err) ==
  LET w1 == [w EXCEPT !.disp[d].lookups = @ \ {ndx}]
  IN IF ~Falsy(err) THEN send_cb(w1, d, ndx, err, UrlUndefined)
     ELSE send_cb(w1, d, ndx, Null, table_get(w1.rt, w1.disp[d].stype))

\* variant: a failed fetch leaves an empty table behind
getRoutingTable_cb_populates(w, b, err, routes) ==
  LET o == b[2]
      w0 == [w EXCEPT !.disp[b].ncb = @ + 1, !.rt = RtEmpty]
      done(x, e) == IF o = 0 THEN x ELSE getLocation_cb(x, C(o), x.disp[b].oatt, e)
  IN IF ~Falsy(err) THEN done(w0, err)
     ELSE IF routes.t = "null"
       THEN [w0 EXCEPT !.rt = RtEmpty, !.crashed = TRUE]
     ELSE LET rs == IF routes.t = "arr" THEN routes.routes ELSE <<>>
          IN done([w0 EXCEPT !.rt = [defined |-> TRUE, map |-> fill_table(<<>>, rs)]],
                  Undefined)

\* (err, routes) => ... of getRoutingTable, b the '--routes' dispatch
getRoutingTable_cb(w, b, err, routes) ==
  LET o == b[2]
      w0 == [w EXCEPT !.disp[b].ncb = @ + 1]
      \* cb of getRoutingTable: getLocation's closure, or the logger at load
      done(x, e) == IF o = 0 THEN x ELSE getLocation_cb(x, C(o), x.disp[b].oatt, e)
  IN IF ~Falsy(err) THEN done(w0, err)
     ELSE IF routes.t = "null"
       \* ROUTING_TABLE = {} and then routes.length throws
       THEN [w0 EXCEPT !.rt = RtEmpty, !.crashed = TRUE]
     ELSE LET rs == IF routes.t = "arr" THEN routes.routes ELSE <<>>
          IN done([w0 EXCEPT !.rt = [defined |-> TRUE, map |-> fill_table(<<>>, rs)]],
                  Undefined)

\* cb of msx: the caller's callback, or getRoutingTable's closure
cb_(w, d, err, res) ==
  IF IsBoot(d) THEN getRoutingTable_cb(w, d, err, res) ELSE user_cb(w, d, err, res)

\* a timer for call_ndx_1(ndx + 1) and the record of its delay
set_timer(w, d, ndx, after) ==
  [w EXCEPT !.disp[d].timers = @ \cup {[ndx |-> ndx + 1, ms |-> after * 1000]},
            !.disp[d].delays = Append(@, after)]

\* variant: gives up one attempt early (ndx + 1 >= schedule.length)
call_ndx_1_cb_early(w, d, ndx, err, res) ==
  LET schedule == w.disp[d].schedule
  IN IF Falsy(err) THEN cb_(w, d, err, res)
     ELSE IF ndx + 1 >= Len(schedule) THEN cb_(w, d, err, res)
     ELSE IF err.noretry THEN cb_(w, d, err, res)
     ELSE set_timer(w, d, ndx, retryafter(schedule, ndx))

\* variant: one attempt more (ndx > schedule.length), at once
call_ndx_1_cb_late(w, d, ndx, err, res) ==
  LET schedule == w.disp[d].schedule
  IN IF Falsy(err) THEN cb_(w, d, err, res)
     ELSE IF ndx > Len(schedule) THEN cb_(w, d, err, res)
     ELSE IF err.noretry THEN cb_(w, d, err, res)
     ELSE set_timer(w, d, ndx,
            IF ndx < Len(schedule) THEN retryafter(schedule, ndx) ELSE 0)

\* variant: err.noretry is not looked at
call_ndx_1_cb_deaf(w, d, ndx, err, res) ==
  LET schedule == w.disp[d].schedule
  IN IF Falsy(err) THEN cb_(w, d, err, res)
     ELSE IF ndx >= Len(schedule) THEN cb_(w, d, err, res)
     ELSE set_timer(w, d, ndx, retryafter(schedule, ndx))

\* variant: cb(err, res) for an error with noretry, without the return
call_ndx_1_cb_noreturn(w, d, ndx, err, res) ==
  LET schedule == w.disp[d].schedule
  IN IF Falsy(err) THEN cb_(w, d, err, res)
     ELSE IF ndx >= Len(schedule) THEN cb_(w, d, err, res)
     ELSE IF err.noretry
       THEN set_timer(cb_(w, d, err, res), d, ndx, retryafter(schedule, ndx))
     ELSE set_timer(w, d, ndx, retryafter(schedule, ndx))

\* (err, res) => ... of call_ndx_1(ndx)
call_ndx_1_cb(w, d, ndx, err, res) ==
  LET schedule == w.disp[d].schedule
  IN IF Falsy(err) THEN cb_(w, d, err, res)
     ELSE IF ndx >= Len(schedule) THEN cb_(w, d, err, res)
     ELSE IF err.noretry THEN cb_(w, d, err, res)
     ELSE set_timer(w, d, ndx, retryafter(schedule, ndx))

\* variant: one flag for the dispatch, set when its callback is called,
\* in place of one flag for each attempt
callOnceOnly_shared(w, d, ndx, err, resp) ==
  IF w.disp[d].ncb >= 1 THEN [w EXCEPT !.disp[d].ndisc = @ + 1]
  ELSE LET w1 == [w EXCEPT !.disp[d].called = @ \cup {ndx},
                           !.disp[d].aerr = err]
       IN IF w1.disp[d].viaRetry THEN call_ndx_1_cb(w1, d, ndx, err, resp)
          ELSE cb_(w1, d, err, resp)

\* variant: the wrapper passes every invocation on
callOnceOnly_unguarded(w, d, ndx, err, resp) ==
  LET w1 == [w EXCEPT !.disp[d].called = @ \cup {ndx}, !.disp[d].aerr = err]
  IN IF w1.disp[d].viaRetry THEN call_ndx_1_cb(w1, d, ndx, err, resp)
     ELSE cb_(w1, d, err, resp)

\* the wrapper callOnceOnly(cb) of the attempt ndx of dispatch d, called
callOnceOnly(w, d, ndx, err, resp) ==
  IF ndx \in w.disp[d].called THEN [w EXCEPT !.disp[d].ndisc = @ + 1]
  ELSE LET w1 == [w EXCEPT !.disp[d].called = @ \cup {ndx},
                           !.disp[d].aerr = err]
       IN IF w1.disp[d].viaRetry THEN call_ndx_1_cb(w1, d, ndx, err, resp)
          ELSE cb_(w1, d, err, resp)

(***************************************************************************)
(* msx, retry and send_, in the order of the calls they make.              *)
(***************************************************************************)
\* variant: every type is retried
can_retry_1_always(type) == TRUE

can_retry_1(type) == ~StartsWith(type, S_once)

strip_1(type) == Substring(type, Len(S_once))

RECURSIVE msx(_, _, _)

\* getRoutingTable(cb), cb the closure of getLocation for the attempt ndx of
\* dispatch d: a new dispatch msx('--routes', ...)
getRoutingTable(w, d, ndx) ==
  LET b == B(d[2])
  IN msx([w EXCEPT !.disp[b] = [Fresh EXCEPT !.oatt = ndx], !.nboot = @ + 1],
         b, S_routes)

\* variant: the table is fetched for every lookup
getLocation_refetch(w, d, ndx) ==
  LET type == w.disp[d].stype
  IN IF type = S_routes THEN send_cb(w, d, ndx, Null, ROUTING_TABLE_URL)
     ELSE getRoutingTable([w EXCEPT !.disp[d].lookups = @ \cup {ndx}], d, ndx)

\* variant: the table, when there is one, is asked first
getLocation_tablefirst(w, d, ndx) ==
  LET type == w.disp[d].stype
  IN IF w.rt.defined THEN send_cb(w, d, ndx, Null, table_get(w.rt, type))
     ELSE IF type = S_routes THEN send_cb(w, d, ndx, Null, ROUTING_TABLE_URL)
     ELSE getRoutingTable([w EXCEPT !.disp[d].lookups = @ \cup {ndx}], d, ndx)

\* getLocation(type, cb), cb the closure of send_ for the attempt ndx
getLocation(w, d, ndx) ==
  LET type == w.disp[d].stype
  IN IF type = S_routes THEN send_cb(w, d, ndx, Null, ROUTING_TABLE_URL)
     ELSE IF w.rt.defined THEN send_cb(w, d, ndx, Null, table_get(w.rt, type))
     ELSE getRoutingTable([w EXCEPT !.disp[d].lookups = @ \cup {ndx}], d, ndx)

\* send_(type, params, cb) as the attempt ndx of dispatch d
send_(w, d, ndx) ==
  getLocation([w EXCEPT !.disp[d].nsend = @ + 1], d, ndx)

call_ndx_1(w, d, ndx) == send_(w, d, ndx)

retry(w, d, schedule, type) ==
  call_ndx_1([w EXCEPT !.disp[d].started = TRUE,
                       !.disp[d].type = type,
                       !.disp[d].stype = type,
                       !.disp[d].schedule = schedule,
                       !.disp[d].viaRetry = TRUE], d, 0)

\* a type that is not a string: the number 5
T_num == <<"5 (a number)">>
IsString(type) == type # T_num

\* variant: a 'once:' type is retried like any other
msx_try_always(w, d, type) ==
  IF ~IsString(type)
    THEN [w EXCEPT !.disp[d].started = TRUE, !.disp[d].type = type,
                   !.disp[d].thrown = TRUE]
  ELSE retry(w, d, DefaultSchedule, type)

\* the try block of msx; type.startsWith is not a function for a number
msx_try(w, d, type) ==
  IF ~IsString(type)
    THEN [w EXCEPT !.disp[d].started = TRUE, !.disp[d].type = type,
                   !.disp[d].thrown = TRUE]
  ELSE IF can_retry_1(type) THEN retry(w, d, DefaultSchedule, type)
  ELSE send_([w EXCEPT !.disp[d].started = TRUE,
                       !.disp[d].type = type,
                       !.disp[d].stype = strip_1(type),
                       !.disp[d].viaRetry = FALSE], d, 0)

\* variant: msx without try and catch
msx_nocatch(w, d, type) == msx_try(w, d, type)

\* msx(type, params, cb): try { ... } catch(e) { cb(e) }
msx(w, d, type) ==
  LET r == msx_try(w, d, type)
  IN IF r.disp[d].thrown
       THEN cb_([r EXCEPT !.disp[d].thrown = FALSE], d, ExceptionObj, Undefined)
     ELSE r

(***************************************************************************)
(* Inputs.                                                                 *)
(***************************************************************************)
Names == {S_mailer, S_users}
UserTypes == Names \cup {S_once \o n : n \in Names}

\* the types dispatched while the table is being fetched: one retried, one not
LoadTypes == {S_mailer, S_once \o S_users}

\* the strictly increasing schedules of at most MaxLen delays in 0..MaxDelay
Schedules ==
  {s \in UNION {[1..n -> 0..MaxDelay] : n \in 0..MaxLen} :
     \A i \in 1..(Len(s) - 1) : s[i] < s[i + 1]}

(***************************************************************************)
(* Init: the module has been loaded, which calls getRoutingTable once.     *)
(***************************************************************************)
World0 == [disp |-> [d \in DispIds |-> Fresh], rt |-> RtUndefined,
           crashed |-> FALSE, nboot |-> 0]

\* the values of opts.retry: an array of delays, or null
RetryArr(seq) == [t |-> "arr", seq |-> seq]
RetryNull == [t |-> "null", seq |-> <<>>]

BFresh ==
  [started |-> FALSE, retry |-> RetryNull, viaRetry |-> FALSE, xhrs |-> {},
   timers |-> {}, delays |-> <<>>, ncb |-> 0, err |-> Undefined,
   res |-> Undefined, nsend |-> 0, aerr |-> Undefined, threw |-> FALSE,
   sendv |-> 2, ndisc |-> 0, bad |-> "none", thrown |-> FALSE]

\* the names call-ms.js is called with
CmsTypes == {S_mailer, S_users}

\* LOCATIONS[type]: undefined, or the string a redirect has stored
LocUndefined == [set |-> FALSE, loc |-> <<>>]
Loc(loc) == [set |-> TRUE, loc |-> loc]

CFresh ==
  [started |-> FALSE, verb |-> "GET", type |-> <<>>, schedule |-> <<>>,
   xhrs |-> {}, timers |-> {}, delays |-> <<>>, ncb |-> 0, err |-> Undefined,
   res |-> Undefined, nsend |-> 0, nredirect |-> 0, threw |-> FALSE]

\* call-ms.js has been loaded: let LOCATIONS = {}
CmsLoaded ==
  /\ LOCATIONS = [t \in CmsTypes |-> LocUndefined]
  /\ cdisp = [c \in Calls |-> CFresh]

\* no call of handleResponse on its own
HIdle == [status |-> 200, body |-> <<>>, done |-> TRUE, out |-> "none",
          val |-> Undefined]

Start(w) ==
  /\ runtime = "node"
  /\ hr = HIdle
  /\ invs = <<>>
  /\ bdisp = [c \in Calls |-> BFresh]
  /\ CmsLoaded
  /\ disp = w.disp
  /\ ROUTING_TABLE = w.rt
  /\ crashed = w.crashed
  /\ nboot = w.nboot
  /\ nsignals = 0

Loaded == getRoutingTable(World0, C(0), 0)

Init == Start(Loaded)

\* the state in which the registry has answered the request made at load
Populated ==
  callOnceOnly(Loaded, B(0), 0, Null, handleResponse(200, B_routes1).val)

InitPopulated == Start(Populated)

(***************************************************************************)
(* Actions.                                                                *)
(***************************************************************************)
Step(w) == Apply(w) /\ UNCHANGED nsignals

\* an event of a request
Emit(w) == Apply(w) /\ nsignals' = nsignals + 1

\* a caller calls msx(type, params, cb)
Msx(c, type) ==
  /\ ~crashed
  /\ ~disp[C(c)].started
  /\ Step(msx(World, C(c), type))

\* retry(schedule, type, params, cb) with a schedule of its own
Retry(c, schedule, type) ==
  /\ ~crashed
  /\ ~disp[C(c)].started
  /\ Step(retry(World, C(c), schedule, type))

\* the 'end' event of the response of the request r of dispatch d
ResponseEnd(d, r, status, body) ==
  /\ ~crashed
  /\ r \in disp[d].reqs
  /\ LET h == handleResponse(status, body)
     IN IF h.out = "throw" THEN Emit([World EXCEPT !.crashed = TRUE])
        ELSE IF h.out = "ok" THEN Emit(callOnceOnly(World, d, r.ndx, Null, h.val))
        ELSE Emit(callOnceOnly(World, d, r.ndx, h.val, Undefined))

\* the 'error' event of the request r of dispatch d
ErrorEvent(d, r) ==
  /\ ~crashed
  /\ r \in disp[d].reqs
  /\ Emit(callOnceOnly(World, d, r.ndx, ErrorObj, Undefined))

\* variant: the timeout is reported as an error that is not to be retried
RequestTimeout_terminal(d, r) ==
  /\ ~crashed
  /\ r \in disp[d].reqs
  /\ LET w == callOnceOnly(World, d, r.ndx,
                           [TimeoutObj EXCEPT !.noretry = TRUE], Undefined)
     IN Emit([w EXCEPT !.disp[d].reqs =
                         (@ \ {r}) \cup {[r EXCEPT !.aborted = TRUE]}])

\* the timeout of the request r of dispatch d: cb({timeout: true}), req.abort()
RequestTimeout(d, r) ==
  /\ ~crashed
  /\ r \in disp[d].reqs
  /\ LET w == callOnceOnly(World, d, r.ndx, TimeoutObj, Undefined)
     IN Emit([w EXCEPT !.disp[d].reqs =
                         (@ \ {r}) \cup {[r EXCEPT !.aborted = TRUE]}])

\* a timer set by call_ndx_1 fires: call_ndx_1(ndx + 1)
TimerFire(d, t) ==
  /\ ~crashed
  /\ t \in disp[d].timers
  /\ Step(call_ndx_1([World EXCEPT !.disp[d].timers = @ \ {t}], d, t.ndx))

Signal ==
  \/ \E d \in DispIds : \E r \in disp[d].reqs :
       \E rsp \in Responses : ResponseEnd(d, r, rsp[1], rsp[2])
  \/ \E d \in DispIds : \E r \in disp[d].reqs : ErrorEvent(d, r)
  \/ \E d \in DispIds : \E r \in disp[d].reqs : RequestTimeout(d, r)

\* the dispatches are numbered in the order in which they are made
InOrder(c) == IF c = 1 THEN TRUE ELSE disp[C(c - 1)].started

\* at most MaxSignals events of the transport in a run
Next ==
  \/ \E c \in Calls, type \in LoadTypes : InOrder(c) /\ Msx(c, type)
  \/ \E d \in DispIds : \E t \in disp[d].timers : TimerFire(d, t)
  \/ nsignals < MaxSignals /\ Signal

Spec == Init /\ [][Next]_vars

\* one dispatch over a populated table, by msx or by retry with a schedule;
\* dispatches share ROUTING_TABLE only, which is not written once populated
\* unless a fetch is under way
Single == {1}

NextPopulated ==
  \/ \E c \in Single, type \in UserTypes : Msx(c, type)
  \/ \E c \in Single, s \in Schedules, type \in Names : Retry(c, s, type)
  \/ \E d \in DispIds : \E t \in disp[d].timers : TimerFire(d, t)
  \/ nsignals < PopSignals /\ Signal

SpecPopulated == InitPopulated /\ [][NextPopulated]_vars

(***************************************************************************)
(* msx-browser.js: setupOptions, reqret and its call_ndx_1, retry and its   *)
(* call_ndx_1.  The file declares msx, send_, handleResponse and           *)
(* getLocation twice.  The first msx (lines 7-20) calls reqret with the    *)
(* options of setupOptions; the second (lines 186-197) calls retry with    *)
(* [1,5,15,25] and reads no option.  The first send_ (lines 65-105) keeps  *)
(* a flag 'called', opens the request with opts.method, sets opts.headers  *)
(* and handles the timeout of the request; the second (lines 232-259)      *)
(* opens a POST, has one handler and no timeout.                           *)
(* Loaded as one script a later declaration replaces an earlier one of the *)
(* same name; sendv says which declarations the dispatch runs with: 1 is   *)
(* lines 1-178 on their own, 2 is the file as it is.  The two              *)
(* handleResponse differ in resp.status = status only, which the callers   *)
(* do not read, and which throws where resp.noretry = true or resp.msg     *)
(* does; both are handleResponse above.                                    *)
(* An exception in an event handler of the page ends that handler only.    *)
(***************************************************************************)
\* setupOptions(o).retry: Object.assign(defaults, o) takes o.retry if o has it
setupOptions(o) == IF o.hasretry THEN o.retry ELSE RetryArr(DefaultSchedule)

browser_cb(x, err, res) ==
  [x EXCEPT !.ncb = @ + 1, !.err = err, !.res = res]

\* what the caller gives msx that a request may reject: nothing, options
\* (a method xhr.open rejects, headers xhr.setRequestHeader rejects), or
\* params JSON.stringify rejects
BadInputs == {"none", "options", "params"}

\* send_ of the attempt ndx: getLocation gives a string, the request is sent
browser_send_(x, ndx) ==
  \* JSON.stringify(params) throws before xhr.send; the first send_ reads
  \* opts.method and opts.headers, where xhr.open or xhr.setRequestHeader
  \* throws, the second reads neither
  IF x.bad = "params" \/ (x.bad = "options" /\ x.sendv = 1)
    THEN [x EXCEPT !.nsend = @ + 1, !.thrown = TRUE]
  ELSE
  [x EXCEPT !.nsend = @ + 1,
            !.xhrs = @ \cup {[ndx |-> ndx, done |-> FALSE, timedout |-> FALSE,
                              called |-> FALSE]}]

\* (err, res) => ... of call_ndx_1(ndx) of reqret
reqret_call_ndx_1_cb(x, ndx, err, res) ==
  IF Falsy(err) THEN browser_cb(x, err, res)
  ELSE IF ndx >= Len(x.retry.seq) THEN browser_cb(x, err, res)
  ELSE IF err.noretry THEN browser_cb(x, err, res)
  ELSE LET after == retryafter(x.retry.seq, ndx)
       IN [x EXCEPT !.timers = @ \cup {[ndx |-> ndx + 1, ms |-> after * 1000]},
                    !.delays = Append(@, after)]

\* the send_ of the file a dispatch is made with
SendVersions == {1, 2}

reqret(x, optsretry) ==
  LET x1 == [x EXCEPT !.started = TRUE, !.retry = optsretry]
  IN IF optsretry.t = "arr" /\ Len(optsretry.seq) # 0
     THEN browser_send_([x1 EXCEPT !.viaRetry = TRUE], 0)
     ELSE browser_send_([x1 EXCEPT !.viaRetry = FALSE], 0)

\* retry(schedule, type, params, cb) of msx-browser.js: call_ndx_1(0),
\* whose callback is the one of reqret's call_ndx_1 with schedule for
\* opts.retry
browser_retry(x, schedule) ==
  browser_send_([x EXCEPT !.started = TRUE, !.retry = RetryArr(schedule),
                          !.viaRetry = TRUE], 0)

\* the body of try of msx: reqret(opts, params, cb) in the first msx,
\* retry([1,5,15,25], type, params, cb) in the second, which replaces the
\* first when the file is loaded as it is
browser_msx_try(x, o, bad) ==
  IF x.sendv = 1 THEN reqret([x EXCEPT !.bad = bad], setupOptions(o))
  ELSE browser_retry([x EXCEPT !.bad = bad], DefaultSchedule)

\* variant: msx of msx-browser.js without try and catch
browser_msx_nocatch(x, o, bad) == browser_msx_try(x, o, bad)

\* msx(type, params, cb) of msx-browser.js, type the object o; bad says
\* what of the caller's input a request may reject
browser_msx(x, o, bad) ==
  LET r == browser_msx_try(x, o, bad)
  IN IF r.thrown THEN browser_cb([r EXCEPT !.thrown = FALSE], StringErr, Undefined)
     ELSE r

\* the values of o.retry given to setupOptions
RetryOptions ==
  {[hasretry |-> FALSE, retry |-> RetryNull],
   [hasretry |-> TRUE, retry |-> RetryNull]}
  \cup {[hasretry |-> TRUE, retry |-> RetryArr(sq)] : sq \in Schedules}

BrowserResponses == Responses \cup {<<0, B_empty>>}

BStep(c, x) ==
  /\ bdisp' = [bdisp EXCEPT ![c] = x]
  /\ UNCHANGED <<nodevars, runtime, hr, invs, cmsvars>>

\* reqret(setupOptions(o), params, cb), with the send_ of version v
Reqret(c, o, v) ==
  /\ ~bdisp[c].started
  /\ BStep(c, reqret([bdisp[c] EXCEPT !.sendv = v], setupOptions(o)))

\* handleResponse(status, resp, cb) with the callback send_ was given for
\* the attempt ndx of the dispatch x
browser_handleResponse(x, ndx, status, body) ==
  LET h == handleResponse(status, body)
      err == IF h.out = "ok" THEN Null ELSE h.val
      res == IF h.out = "ok" THEN h.val ELSE Undefined
      x2 == [x EXCEPT !.aerr = err]
  IN IF h.out = "throw" THEN [x EXCEPT !.threw = TRUE]
     ELSE IF x2.viaRetry THEN reqret_call_ndx_1_cb(x2, ndx, err, res)
     ELSE browser_cb(x2, err, res)

\* the request xhr of x with the field f set
xhr_set(x, xhr, f) ==
  [x EXCEPT !.xhrs = (@ \ {xhr}) \cup
     {[xhr EXCEPT !.done = @ \/ f = "done", !.timedout = @ \/ f = "timedout",
                  !.called = @ \/ (x.sendv = 1)]}]

\* variant: the handler does not look at called
XhrDone_unguarded(c, xhr, status, body) ==
  /\ xhr \in bdisp[c].xhrs
  /\ ~xhr.done
  /\ LET x1 == xhr_set(bdisp[c], xhr, "done")
     IN BStep(c, browser_handleResponse(x1, xhr.ndx, status, body))

\* xhr.onreadystatechange with readyState DONE, once per request
XhrDone(c, xhr, status, body) ==
  /\ xhr \in bdisp[c].xhrs
  /\ ~xhr.done
  /\ LET x1 == xhr_set(bdisp[c], xhr, "done")
     IN IF xhr.called THEN BStep(c, [x1 EXCEPT !.ndisc = @ + 1])
        ELSE BStep(c, browser_handleResponse(x1, xhr.ndx, status, body))

\* xhr.ontimeout of the first send_: handleResponse(504, null, cb)
XhrTimeout(c, xhr) ==
  /\ xhr \in bdisp[c].xhrs
  /\ bdisp[c].sendv = 1
  /\ ~xhr.timedout
  /\ LET x1 == xhr_set(bdisp[c], xhr, "timedout")
     IN IF xhr.called THEN BStep(c, [x1 EXCEPT !.ndisc = @ + 1])
        ELSE BStep(c, browser_handleResponse(x1, xhr.ndx, 504, B_empty))

\* a timer set by call_ndx_1 of reqret fires
BrowserTimerFire(c, t) ==
  /\ t \in bdisp[c].timers
  /\ BStep(c, browser_send_([bdisp[c] EXCEPT !.timers = @ \ {t}], t.ndx))

NextBrowser ==
  \/ \E c \in Single, o \in RetryOptions, v \in SendVersions : Reqret(c, o, v)
  \/ \E c \in Calls : \E xhr \in bdisp[c].xhrs :
       \E rsp \in BrowserResponses : XhrDone(c, xhr, rsp[1], rsp[2])
  \/ \E c \in Calls : \E xhr \in bdisp[c].xhrs : XhrTimeout(c, xhr)
  \/ \E c \in Calls : \E t \in bdisp[c].timers : BrowserTimerFire(c, t)

InitBrowser ==
  /\ runtime = "browser"
  /\ hr = HIdle
  /\ invs = <<>>
  /\ bdisp = [c \in Calls |-> BFresh]
  /\ CmsLoaded
  /\ disp = World0.disp
  /\ ROUTING_TABLE = World0.rt
  /\ crashed = FALSE
  /\ nboot = 0
  /\ nsignals = 0

\* the retry loops of both files: msx-node.js over a populated table, or
\* msx-browser.js
NextRetry ==
  \/ runtime = "node" /\ NextPopulated
  \/ runtime = "browser" /\ NextBrowser

SpecRetry == (InitPopulated \/ InitBrowser) /\ [][NextRetry]_vars

(***************************************************************************)
(* Fair behaviours of one dispatch after the other over a populated table: *)
(* every request emits the event that ends its attempt, and every timer    *)
(* fires.  Only the first event of a request is considered here.           *)
(***************************************************************************)
FirstSignal(d) ==
  \E r \in disp[d].reqs :
     /\ r.ndx \notin disp[d].called
     /\ \/ \E rsp \in Responses : ResponseEnd(d, r, rsp[1], rsp[2])
        \/ ErrorEvent(d, r)
        \/ RequestTimeout(d, r)

Timer(d) == \E t \in disp[d].timers : TimerFire(d, t)

NextFair ==
  \/ \E c \in Single, type \in UserTypes : Msx(c, type)
  \/ \E d \in DispIds : Timer(d)
  \/ \E d \in DispIds : FirstSignal(d)

FairSpec ==
  /\ InitPopulated
  /\ [][NextFair]_vars
  /\ \A d \in DispIds : WF_vars(Timer(d)) /\ WF_vars(FirstSignal(d))

(***************************************************************************)
(* handleResponse on its own: one call with a status and a body; out says  *)
(* what it did, "ok" for cb(null, val), "err" for cb(val), "throw" for an  *)
(* exception raised before cb was called.                                  *)
(***************************************************************************)
InitHandle ==
  /\ runtime = "handle"
  /\ invs = <<>>
  /\ bdisp = [c \in Calls |-> BFresh]
  /\ CmsLoaded
  /\ disp = World0.disp
  /\ ROUTING_TABLE = World0.rt
  /\ crashed = FALSE
  /\ nboot = 0
  /\ nsignals = 0
  /\ \E status \in Statuses, body \in Bodies :
       hr = [status |-> status, body |-> body, done |-> FALSE, out |-> "none",
             val |-> Undefined]

\* handleResponse(status, resp, cb)
HandleResponse ==
  /\ ~hr.done
  /\ LET h == handleResponse(hr.status, hr.body)
     IN hr' = [hr EXCEPT !.done = TRUE, !.out = h.out, !.val = h.val]
  /\ UNCHANGED <<nodevars, runtime, bdisp, invs, cmsvars>>

NextHandle == HandleResponse

SpecHandle == InitHandle /\ [][NextHandle]_vars

(***************************************************************************)
(* The calls of msx with arguments that make the set-up of the dispatch    *)
(* throw: a type that is not a string, params that JSON.stringify rejects  *)
(* (msx-node.js), options or params that make xhr.open, setRequestHeader   *)
(* or JSON.stringify throw (msx-browser.js); over a table that is          *)
(* populated or still being fetched.                                       *)
(***************************************************************************)
SetupTypes == {S_mailer, S_once \o S_mailer, T_num, S_routes, S_once \o S_routes}
SetupParams == {"null", "obj", "circular"}

\* msx(type, params, cb)
MsxSetup(c, type, params) ==
  /\ ~crashed
  /\ ~disp[C(c)].started
  /\ Step(msx([World EXCEPT !.disp[C(c)].params = params], C(c), type))

\* msx(o, params, cb) of msx-browser.js
BrowserMsx(c, o, v, bad) ==
  /\ ~bdisp[c].started
  /\ BStep(c, browser_msx([bdisp[c] EXCEPT !.sendv = v], o, bad))

NextSetup ==
  \/ /\ runtime = "node"
     /\ \E c \in Single, type \in SetupTypes, params \in SetupParams :
          MsxSetup(c, type, params)
  \/ runtime = "node" /\ \E d \in DispIds : \E t \in disp[d].timers : TimerFire(d, t)
  \/ runtime = "node" /\ nsignals < MaxSignals /\ Signal
  \/ /\ runtime = "browser"
     /\ \E c \in Single, o \in RetryOptions, v \in SendVersions, bad \in BadInputs :
          BrowserMsx(c, o, v, bad)
  \/ /\ runtime = "browser"
     /\ \E c \in Calls : \E xhr \in bdisp[c].xhrs :
          \/ \E rsp \in BrowserResponses : XhrDone(c, xhr, rsp[1], rsp[2])
          \/ XhrTimeout(c, xhr)
  \/ runtime = "browser" /\ \E c \in Calls : \E t \in bdisp[c].timers : BrowserTimerFire(c, t)

SpecSetup == (Init \/ InitPopulated \/ InitBrowser) /\ [][NextSetup]_vars

(***************************************************************************)
(* callOnceOnly on its own: the wrapper made for the first attempt of a    *)
(* dispatch over a populated table is invoked up to MaxInvocations times,  *)
(* as the handlers of the request would invoke it; and the flag 'called'   *)
(* of the first send_ of msx-browser.js under the events of its request.   *)
(***************************************************************************)
\* the arguments (err, resp) the handlers of a request pass to the wrapper
Invocations ==
  {[err |-> ErrorObj, res |-> Undefined],
   [err |-> TimeoutObj, res |-> Undefined],
   [err |-> Null, res |-> MsgObj(S_busy)],
   [err |-> MsgObj(B_text), res |-> Undefined],
   [err |-> [MsgObj(defaultMsg) EXCEPT !.noretry = TRUE], res |-> Undefined]}

InitGuard ==
  /\ runtime = "guard"
  /\ hr = HIdle
  /\ invs = <<>>
  /\ bdisp = [c \in Calls |-> BFresh]
  /\ CmsLoaded
  /\ nsignals = 0
  /\ \E type \in {S_mailer, S_once \o S_mailer} :
       LET w == msx(Populated, C(1), type)
       IN /\ disp = w.disp
          /\ ROUTING_TABLE = w.rt
          /\ crashed = w.crashed
          /\ nboot = w.nboot

\* the wrapper of the first attempt is invoked with (a.err, a.res)
Invoke(a) ==
  /\ Len(invs) < MaxInvocations
  /\ ApplyNode(callOnceOnly(World, C(1), 0, a.err, a.res))
  /\ invs' = Append(invs, a)
  /\ UNCHANGED <<nsignals, runtime, bdisp, hr, cmsvars>>

NextGuard ==
  \/ runtime = "guard" /\ \E a \in Invocations : Invoke(a)
  \/ runtime = "guard" /\ \E t \in disp[C(1)].timers : TimerFire(C(1), t)
  \/ runtime = "browser" /\ NextBrowser

SpecGuard == (InitGuard \/ InitBrowser) /\ [][NextGuard]_vars

(***************************************************************************)
(* The registry is down: the table is not populated at load and every      *)
(* request to the registry fails in a way that is retried, by a response   *)
(* with status 500, by an 'error' event or by the timeout.  Every request  *)
(* emits one event.                                                        *)
(***************************************************************************)
RegistryFails(d) ==
  \E r \in disp[d].reqs :
     /\ r.ndx \notin disp[d].called
     /\ r.hostname = ROUTING_TABLE_URL.hostname /\ r.port = ROUTING_TABLE_URL.port
     /\ \/ ResponseEnd(d, r, 500, B_text)
        \/ ErrorEvent(d, r)
        \/ RequestTimeout(d, r)

\* what the event loop has to run: a timer that is due, an event of a
\* request
Pending ==
  \/ \E d \in DispIds : Timer(d)
  \/ \E d \in DispIds : RegistryFails(d)

NextRegistryDown ==
  \/ \E c \in Single, type \in LoadTypes : Msx(c, type)
  \/ Pending

SpecRegistryDown == Init /\ [][NextRegistryDown]_vars

(***************************************************************************)
(* call-ms.js.  A call of get, post or retry is a record of cdisp: its     *)
(* verb, type and schedule, the XMLHttpRequests send_ has made for it      *)
(* (xhrs: the attempt ndx whose callback the request carries, the url it   *)
(* was opened with, and once it is DONE its status and responseText), the  *)
(* pending timers, what the caller's callback has received, the number of  *)
(* calls of redirect, and whether a handler of the call has thrown.        *)
(***************************************************************************)
\* the redirect property of the value JSON.parse gives for the body
JSONredirect(raw) == raw = B_objredirect

\* handleResponse(status, resp, cb) of call-ms.js: out as for handleResponse
\* above, redirect is err.redirect
cms_handleResponse(status, body) ==
  LET parsed == JSONparse(body)
      resp == IF body = <<>> THEN MsgObj(defaultMsg)
              ELSE IF parsed.ok THEN parsed.val
              ELSE MsgObj(body)
      setredirect == status = 300
      setnoretry == status >= 400 /\ status < 500
      resp1 == IF setnoretry THEN [resp EXCEPT !.noretry = TRUE] ELSE resp
      redirect == setredirect \/ (body # <<>> /\ parsed.ok /\ JSONredirect(body))
  IN IF status = 200 THEN [out |-> "ok", val |-> resp, redirect |-> FALSE]
     \* resp.redirect = true and resp.noretry = true throw on null and, the
     \* file being in strict mode, on a number
     ELSE IF (setredirect \/ setnoretry) /\ resp.t \in {"null", "num"}
       THEN [out |-> "throw", val |-> Undefined, redirect |-> FALSE]
     \* resp.msg of null throws; msg.toLowerCase throws unless msg is a string
     ELSE IF resp.t = "null" \/ resp.msgk # "str"
       THEN [out |-> "throw", val |-> Undefined, redirect |-> FALSE]
     ELSE IF is_html_1(resp1.msg)
       THEN [out |-> "err", val |-> [resp1 EXCEPT !.msg = defaultMsg],
             redirect |-> redirect]
     ELSE [out |-> "err", val |-> resp1, redirect |-> redirect]

\* getLocation(type) of call-ms.js
cms_getLocation(locations, type) ==
  LET svr == IF locations[type].set /\ locations[type].loc # <<>>
               THEN locations[type].loc
             ELSE S_origin
  IN IF svr[Len(svr)] = "/" THEN svr \o type ELSE svr \o <<"/">> \o type

\* LOCATIONS and the record of the call the functions below work on
CmsWorld(c) == [LOCATIONS |-> LOCATIONS, x |-> cdisp[c]]

\* the caller's callback
cms_cb(w, err, res) ==
  [w EXCEPT !.x.ncb = @ + 1, !.x.err = err, !.x.res = res]

\* send_(verb_, type, params, cb), cb the callback of call_ndx_1(ndx)
cms_send_(w, ndx) ==
  LET url_ == cms_getLocation(w.LOCATIONS, w.x.type)
  IN [w EXCEPT !.x.nsend = @ + 1,
               !.x.xhrs = @ \cup {[id |-> w.x.nsend, ndx |-> ndx, url |-> url_,
                                   verb |-> w.x.verb, done |-> FALSE,
                                   status |-> 0, responseText |-> <<>>]}]

\* (err, res) => ... of call_ndx_1(ndx) of retry
cms_call_ndx_1_cb(w, ndx, err, res) ==
  IF Falsy(err) THEN cms_cb(w, err, res)
  ELSE IF ndx >= Len(w.x.schedule) THEN cms_cb(w, err, res)
  ELSE IF err.noretry THEN cms_cb(w, err, res)
  ELSE LET after == retryafter(w.x.schedule, ndx)
       IN [w EXCEPT !.x.timers = @ \cup {[ndx |-> ndx + 1, ms |-> after * 1000]},
                    !.x.delays = Append(@, after)]

\* variant: the location is stored for every type
cms_redirect_all(w, loc, ndx) ==
  cms_send_([w EXCEPT !.LOCATIONS = [t \in CmsTypes |-> Loc(loc)],
                      !.x.nredirect = @ + 1], ndx)

\* redirect(loc, verb_, type, params, cb)
cms_redirect(w, loc, ndx) ==
  cms_send_([w EXCEPT !.LOCATIONS[w.x.type] = Loc(loc),
                      !.x.nredirect = @ + 1], ndx)

\* (err, resp) => ... of send_, h what handleResponse does with it
cms_send_cb(w, ndx, h) ==
  LET err == IF h.out = "ok" THEN Null ELSE h.val
      res == IF h.out = "ok" THEN h.val ELSE Undefined
  IN IF ~Falsy(err) /\ h.redirect THEN cms_redirect(w, err.msg, ndx)
     ELSE cms_call_ndx_1_cb(w, ndx, err, res)

\* retry(schedule, fn, type, params, cb), fn get or get_ (verb GET), post
\* or post_ (verb POST)
cms_retry(w, schedule, verb, type) ==
  cms_send_([w EXCEPT !.x.started = TRUE, !.x.schedule = schedule,
                      !.x.verb = verb, !.x.type = type], 0)

\* get(type, params, cb) and post(type, params, cb)
get(w, type) == cms_retry(w, DefaultSchedule, "GET", type)
post(w, type) == cms_retry(w, DefaultSchedule, "POST", type)

\* the events of the requests in a run of call-ms.js
CmsSignals == 3

\* the calls that run side by side, and the schedules given to retry
Pair == {1, 2}
CmsSchedules == {<<>>, <<1, 2>>}

\* the responses the services give to call-ms.js
CmsResponses ==
  {<<200, B_objmsg>>, <<500, B_text>>, <<300, B_locA>>, <<300, B_objloc>>,
   <<300, B_objempty>>, <<300, B_objnomsg>>, <<500, B_objredirect>>}

CStep(c, w) ==
  /\ LOCATIONS' = w.LOCATIONS
  /\ cdisp' = [cdisp EXCEPT ![c] = w.x]
  /\ UNCHANGED <<disp, ROUTING_TABLE, crashed, nboot, runtime, bdisp, hr, invs>>

Get(c, type) ==
  /\ ~cdisp[c].started
  /\ CStep(c, get(CmsWorld(c), type))
  /\ UNCHANGED nsignals

Post(c, type) ==
  /\ ~cdisp[c].started
  /\ CStep(c, post(CmsWorld(c), type))
  /\ UNCHANGED nsignals

CmsRetry(c, schedule, verb, type) ==
  /\ ~cdisp[c].started
  /\ CStep(c, cms_retry(CmsWorld(c), schedule, verb, type))
  /\ UNCHANGED nsignals

\* xhr.onreadystatechange with readyState DONE, once per request
CmsXhrDone(c, xhr, status, body) ==
  /\ xhr \in cdisp[c].xhrs
  /\ ~xhr.done
  /\ nsignals' = nsignals + 1
  /\ LET w == CmsWorld(c)
         w1 == [w EXCEPT !.x.xhrs = (@ \ {xhr}) \cup
                  {[xhr EXCEPT !.done = TRUE, !.status = status,
                               !.responseText = body]}]
         h == cms_handleResponse(status, body)
     IN IF h.out = "throw" THEN CStep(c, [w1 EXCEPT !.x.threw = TRUE])
        ELSE CStep(c, cms_send_cb(w1, xhr.ndx, h))

\* a timer set by call_ndx_1 fires
CmsTimerFire(c, t) ==
  /\ t \in cdisp[c].timers
  /\ CStep(c, cms_send_([CmsWorld(c) EXCEPT !.x.timers = @ \ {t}], t.ndx))
  /\ UNCHANGED nsignals

InitCallMs ==
  /\ runtime = "callms"
  /\ hr = HIdle
  /\ invs = <<>>
  /\ bdisp = [c \in Calls |-> BFresh]
  /\ CmsLoaded
  /\ disp = World0.disp
  /\ ROUTING_TABLE = World0.rt
  /\ crashed = FALSE
  /\ nboot = 0
  /\ nsignals = 0

NextCallMs ==
  \/ \E c \in Pair, type \in CmsTypes : Get(c, type)
  \/ \E c \in Single, type \in CmsTypes : Post(c, type)
  \/ \E c \in Single, schedule \in CmsSchedules, verb \in {"GET", "POST"},
        type \in CmsTypes : CmsRetry(c, schedule, verb, type)
  \/ /\ nsignals < CmsSignals
     /\ \E c \in Pair : \E xhr \in cdisp[c].xhrs :
          \E rsp \in CmsResponses : CmsXhrDone(c, xhr, rsp[1], rsp[2])
  \/ \E c \in Pair : \E t \in cdisp[c].timers : CmsTimerFire(c, t)

SpecCallMs == InitCallMs /\ [][NextCallMs]_vars

(***************************************************************************)
(* Properties.                                                             *)
(***************************************************************************)
Truthy(v) == ~Falsy(v)

RECURSIVE SumTo(_, _)
SumTo(seq, k) == IF k = 0 THEN 0 ELSE seq[k] + SumTo(seq, k - 1)

\* the dispatches made through retry
Retried == {d \in DispIds : disp[d].started /\ disp[d].viaRetry}

\* C1: a dispatch through retry never makes more than len(schedule)+1
\* attempts, and when its callback has received a failure without noretry
\* (so every attempt failed retryably) it has made exactly len(schedule)+1
\* attempts and the failure of the last one is what the callback received.
C1_AttemptsExhausted ==
  \A d \in Retried :
    LET x == disp[d]
    IN /\ x.nsend <= Len(x.schedule) + 1
       /\ (x.ncb >= 1 /\ Truthy(x.aerr) /\ ~x.aerr.noretry) =>
             /\ x.nsend = Len(x.schedule) + 1
             /\ x.called = 0..Len(x.schedule)
       /\ (Len(x.schedule) \in x.called /\ Truthy(x.aerr)) =>
             /\ x.ncb = 1
             /\ ~IsBoot(d) => x.err = x.aerr

C1_Witness ==
  \E c \in Calls :
    LET x == disp[C(c)]
    IN /\ x.viaRetry /\ x.schedule = DefaultSchedule
       /\ x.nsend = 5 /\ x.ncb = 1
       /\ Truthy(x.err) /\ ~x.err.noretry

\* the delay call_ndx_1 schedules after the failure of attempt k-1
DelayOK(x, k) ==
  /\ x.delays[k] = IF k = 1 THEN x.schedule[1] ELSE x.schedule[k] - x.schedule[k - 1]
  /\ SumTo(x.delays, k) = x.schedule[k]

TimersOK(x) ==
  \A t \in x.timers : t.ndx = Len(x.delays) /\ t.ms = 1000 * x.delays[t.ndx]

\* C2 as stated: the delay after the failure of attempt i is schedule[0] for
\* i = 0 and schedule[i] - schedule[i-1] otherwise, the delays before attempt
\* k sum to schedule[k-1], and every scheduled delay is positive.
C2_DelaysPositive ==
  \A d \in Retried :
    LET x == disp[d]
    IN /\ TimersOK(x)
       /\ \A k \in 1..Len(x.delays) : DelayOK(x, k) /\ x.delays[k] > 0

\* C2, amended: the same delays and sums; every delay after the first is
\* positive, and the first is schedule[0], which is 0 when schedule[0] is.
C2_Delays ==
  \A d \in Retried :
    LET x == disp[d]
    IN /\ TimersOK(x)
       /\ \A k \in 1..Len(x.delays) :
            /\ DelayOK(x, k)
            /\ x.delays[k] >= 0
            /\ (k > 1 \/ x.schedule[1] > 0) => x.delays[k] > 0

C2_Witness ==
  \E c \in Calls :
    LET x == disp[C(c)]
    IN /\ x.viaRetry /\ Len(x.delays) = 2
       /\ x.delays[1] = 0 /\ x.delays[2] = x.schedule[2]
       /\ x.nsend = 3

\* C3: once an attempt of a dispatch has failed with noretry set, the
\* dispatch's callback has received that failure, no timer is pending and
\* no attempt is under way or made afterwards: the attempts made are the
\* ones that have called back.
C3_NoRetryIsTerminal ==
  \A d \in DispIds :
    LET x == disp[d]
    IN (x.started /\ Truthy(x.aerr) /\ x.aerr.noretry) =>
          /\ x.ncb = 1
          /\ ~IsBoot(d) => x.err = x.aerr
          /\ x.timers = {} /\ x.lookups = {}
          /\ x.nsend = Cardinality(x.called)
          /\ x.called = 0..(x.nsend - 1)

C3_Witness ==
  \E c \in Calls :
    LET x == disp[C(c)]
    IN /\ x.viaRetry /\ x.schedule = DefaultSchedule
       /\ x.nsend = 2 /\ x.reqs # {}
       /\ x.ncb = 1 /\ x.err.noretry

\* C4: a dispatch whose schedule is empty (retry of msx-node.js) or empty or
\* null (reqret of msx-browser.js) makes one attempt and sets no timer, and
\* when the attempt has called back the caller's callback has received
\* what the attempt's callback received.
C4_EmptySchedule ==
  /\ \A d \in Retried :
       LET x == disp[d]
       IN x.schedule = <<>> =>
            /\ x.nsend = 1
            /\ x.timers = {} /\ x.delays = <<>>
            /\ (0 \in x.called) = (x.ncb = 1)
            /\ x.ncb <= 1
            /\ x.ncb = 1 => x.err = x.aerr
  /\ \A c \in Calls :
       LET x == bdisp[c]
       IN (x.started /\ x.retry.seq = <<>>) =>
            /\ x.nsend = 1
            /\ x.timers = {} /\ x.delays = <<>>
            /\ (\E xhr \in x.xhrs : xhr.done \/ xhr.timedout) = (x.ncb = 1 \/ x.threw)
            /\ x.ncb <= 1
            /\ x.ncb = 1 => x.err = x.aerr

\* a null schedule in the browser, the one attempt failed retryably
C4_Witness ==
  \E c \in Calls :
    LET x == bdisp[c]
    IN /\ x.started /\ x.retry = RetryNull
       /\ x.nsend = 1 /\ x.ncb = 1
       /\ Truthy(x.err) /\ ~x.err.noretry

\* the same with retry([], ...) of msx-node.js
C4_WitnessNode ==
  \E c \in Calls :
    LET x == disp[C(c)]
    IN /\ x.viaRetry /\ x.schedule = <<>>
       /\ x.nsend = 1 /\ x.ncb = 1
       /\ Truthy(x.err) /\ ~x.err.noretry

\* C5: a dispatch msx('once:<name>') makes one attempt; the type it looks
\* up and requests is <name>; no timer is ever set, and once the attempt has
\* called back the caller's callback has received its outcome.
C5_OnceOnly ==
  \A c \in Calls :
    LET x == disp[C(c)]
    IN (x.started /\ StartsWith(x.type, S_once)) =>
          /\ x.type = S_once \o x.stype
          /\ x.nsend = 1
          /\ x.timers = {} /\ x.delays = <<>>
          /\ \A r \in x.reqs :
               /\ r.ndx = 0
               /\ r.path = <<"/">> \o x.stype
               /\ x.stype \in DOMAIN ROUTING_TABLE.map
               /\ r.port = ROUTING_TABLE.map[x.stype].port
          /\ (0 \in x.called) = (x.ncb = 1)
          /\ x.ncb <= 1
          /\ x.ncb = 1 => x.err = x.aerr

C5_Witness ==
  \E c \in Calls :
    LET x == disp[C(c)]
    IN /\ x.type = S_once \o S_mailer
       /\ x.reqs # {} /\ x.nsend = 1
       /\ x.ncb = 1 /\ Truthy(x.err) /\ ~x.err.noretry

\* C6: the caller's callback of a dispatch is invoked at most once.
C6_CallbackAtMostOnce == \A c \in Calls : disp[C(c)].ncb <= 1

C6_Witness ==
  \E c \in Calls : disp[C(c)].ncb = 1 /\ disp[C(c)].ndisc >= 1

\* C10: a dispatch of a name without an entry in the populated table makes
\* one call of send_, which starts no request and sets no timer, and the
\* caller's callback receives {msg: 'Error - no route to <name> found',
\* noretry: true}.
C10_NoRoute ==
  \A c \in Calls :
    LET x == disp[C(c)]
    IN (x.started /\ ROUTING_TABLE.defined /\ x.stype \notin DOMAIN ROUTING_TABLE.map) =>
          /\ x.nsend = 1
          /\ x.reqs = {} /\ x.timers = {} /\ x.lookups = {}
          /\ x.ncb = 1
          /\ x.err = Val("obj", "str", S_noroute1 \o x.stype \o S_noroute2,
                         TRUE, FALSE, <<>>)
          /\ x.res = Undefined

C10_Witness ==
  \E c \in Calls :
    LET x == disp[C(c)]
    IN /\ x.viaRetry /\ x.type = S_users /\ Len(x.schedule) >= 1
       /\ x.ncb = 1 /\ x.err.noretry /\ x.reqs = {}

\* C7: every dispatch that has been started eventually invokes the caller's
\* callback, if every request emits an event and every timer fires.
C7_EveryDispatchCompletes ==
  \A c \in Calls : disp[C(c)].started ~> (disp[C(c)].ncb >= 1)

\* the '--routes' dispatches whose callback has not been called yet
BootsInFlight == {o \in Owners : disp[B(o)].started /\ disp[B(o)].ncb = 0}

\* C8: the lookups made while the table is unpopulated share one fetch of
\* the table: at most one '--routes' dispatch is under way at any time.
C8_OneBootstrapInFlight == Cardinality(BootsInFlight) <= 1

\* C9: in the step in which a '--routes' dispatch calls back with an error,
\* the attempt whose lookup had started it receives that error and
\* ROUTING_TABLE is left as it was; and every call of send_ for a caller's
\* dispatch made while ROUTING_TABLE is unset starts a '--routes' dispatch.
C9_Step ==
  /\ \A o \in Owners :
       LET b == disp[B(o)]
           b2 == disp'[B(o)]
       IN (b.started /\ b.ncb = 0 /\ b2.ncb = 1 /\ Truthy(b2.aerr)) =>
             /\ ROUTING_TABLE' = ROUTING_TABLE
             /\ o # 0 =>
                  /\ b.oatt \in disp[C(o)].lookups
                  /\ b.oatt \notin disp'[C(o)].lookups
                  /\ b.oatt \in disp'[C(o)].called
                  /\ disp'[C(o)].aerr = b2.aerr
  /\ \A c \in Calls :
       (~ROUTING_TABLE.defined /\ disp'[C(c)].nsend = disp[C(c)].nsend + 1) =>
          /\ nboot' = nboot + 1
          /\ disp'[B(c)].started /\ disp'[B(c)].ncb = 0
          /\ disp'[B(c)].oatt = disp[C(c)].nsend
          /\ disp'[C(c)].lookups = {disp[C(c)].nsend}

C9_BootstrapFailure == [][C9_Step]_vars

\* a fetch has failed, its owner has been told, the table is unset and the
\* lookup of another dispatch has started the third fetch
C9_Witness ==
  \E c1, c2 \in Calls :
    /\ c1 # c2
    /\ ~ROUTING_TABLE.defined
    /\ disp[B(c1)].ncb = 1 /\ Truthy(disp[B(c1)].aerr)
    /\ disp[C(c1)].aerr = disp[B(c1)].aerr /\ disp[C(c1)].ncb = 1
    /\ disp[C(c2)].lookups = {0} /\ c2 \in BootsInFlight
    /\ nboot = 3

\* C11: handleResponse classifies by the status alone: 200 gives
\* cb(null, value), with {msg: defaultMsg} for an empty body; 0 and 500 give
\* an error without noretry; every other status an error with noretry.
C11_ClassifiedByStatus ==
  (runtime = "handle" /\ hr.done) =>
     IF hr.status = 200
       THEN hr.out = "ok" /\ (hr.body = <<>> => hr.val = MsgObj(defaultMsg))
     ELSE IF hr.status \in {0, 500}
       THEN hr.out = "err" /\ ~hr.val.noretry
     ELSE hr.out = "err" /\ hr.val.noretry

\* C18: for every status and every shape of body handleResponse calls its
\* callback once and raises no exception.
C18_NoException ==
  (runtime = "handle" /\ hr.done) => hr.out \in {"ok", "err"}

\* the '--routes' dispatches, as they are
Boots == [o \in Owners |-> disp[B(o)]]

\* C14: a call of send_ made while ROUTING_TABLE is populated is through
\* with its lookup within the step: no lookup is left waiting, no
\* '--routes' dispatch is started or touched, the table is left alone, and
\* the attempt goes on with ROUTING_TABLE[name] (a request to that url, or
\* the no-route error when there is no entry).
C14_Step ==
  \A c \in Calls :
    LET x == disp[C(c)]
        y == disp'[C(c)]
    IN (ROUTING_TABLE.defined /\ y.nsend = x.nsend + 1) =>
          /\ nboot' = nboot
          /\ Boots' = Boots
          /\ ROUTING_TABLE' = ROUTING_TABLE
          /\ y.lookups = x.lookups /\ x.nsend \notin y.lookups
          /\ IF y.stype \in DOMAIN ROUTING_TABLE.map
               THEN /\ y.reqs # x.reqs
                    /\ \A r \in y.reqs \ x.reqs :
                         /\ r.ndx = x.nsend
                         /\ r.hostname = ROUTING_TABLE.map[y.stype].hostname
                         /\ r.port = ROUTING_TABLE.map[y.stype].port
               ELSE /\ y.reqs = x.reqs
                    /\ x.nsend \in y.called

C14_SynchronousLookup == [][C14_Step]_vars

\* the table was fetched at load and a later dispatch went straight to the
\* service
C14_Witness ==
  /\ ROUTING_TABLE.defined /\ nboot = 1
  /\ \E c \in Calls :
       /\ disp[C(c)].lookups = {} /\ ~disp[B(c)].started
       /\ \E r \in disp[C(c)].reqs : r.port = 1

\* C15: once ROUTING_TABLE has been populated no later step assigns it or
\* any of its entries again.
C15_Step == ROUTING_TABLE.defined => ROUTING_TABLE' = ROUTING_TABLE

C15_WrittenOnce == [][C15_Step]_vars

\* the step is the timeout of the request r of the dispatch that goes from
\* x to y: the request is aborted in it
TimedOut(x, y, r) ==
  /\ r \in x.reqs /\ ~r.aborted
  /\ r \notin y.reqs /\ [r EXCEPT !.aborted = TRUE] \in y.reqs

\* C17: when the timeout of a request comes before any other event of it,
\* the attempt's callback is called in that step, once, with
\* {timeout: true}, and the request is aborted; every event of the dispatch
\* that follows while that attempt is its last is discarded: nothing of the
\* dispatch changes but the count of the discarded events (and the
\* requests that are aborted).
C17_Step ==
  \A d \in DispIds :
    LET x == disp[d]
        y == disp'[d]
    IN \A r \in x.reqs :
         /\ (r.ndx \notin x.called /\ TimedOut(x, y, r)) =>
               /\ y.called = x.called \cup {r.ndx}
               /\ y.aerr = TimeoutObj
               /\ y.ndisc = x.ndisc
               /\ IF x.viaRetry /\ r.ndx < Len(x.schedule)
                    THEN y.ncb = x.ncb /\ \E t \in y.timers : t.ndx = r.ndx + 1
                    ELSE y.ncb = x.ncb + 1 /\ y.timers = x.timers
         /\ (r.aborted /\ x.nsend = r.ndx + 1 /\ nsignals' = nsignals + 1 /\ y # x) =>
               y = [x EXCEPT !.ndisc = @ + 1, !.reqs = y.reqs]

C17_TimeoutOnce == [][C17_Step]_vars

\* the first attempt timed out, a retry is scheduled, and an event that the
\* aborted request emitted afterwards has been discarded
C17_Witness ==
  \E c \in Calls :
    LET x == disp[C(c)]
    IN /\ x.viaRetry /\ x.nsend = 1 /\ x.timers # {}
       /\ x.aerr = TimeoutObj /\ x.ndisc >= 1
       /\ \E r \in x.reqs : r.aborted

\* the attempts of a dispatch that have been started and have not called
\* back: they wait for the table or for an event of their request
InFlight(x) == {ndx \in 0..(x.nsend - 1) : ndx \notin x.called}

\* C19: of one dispatch at most one attempt is in flight, and it is the last
\* one started; an attempt is started only when all the earlier ones have
\* called back and the timer set after the last failure has fired, so there
\* is never more than one timer, none while an attempt is in flight, and as
\* many attempts as timers fired, plus the first.
C19_OneAttemptInFlight ==
  \A d \in DispIds :
    LET x == disp[d]
    IN /\ Cardinality(InFlight(x)) <= 1
       /\ InFlight(x) \subseteq {x.nsend - 1}
       /\ Cardinality(x.timers) <= 1
       /\ InFlight(x) # {} => x.timers = {}
       /\ \A t \in x.timers : t.ndx = x.nsend /\ (t.ndx - 1) \in x.called
       /\ x.viaRetry => x.nsend + Cardinality(x.timers) = Len(x.delays) + 1

\* the third attempt is in flight and an event of an earlier attempt has
\* been discarded
C19_Witness ==
  \E c \in Calls :
    LET x == disp[C(c)]
    IN x.nsend = 3 /\ InFlight(x) = {2} /\ x.ndisc >= 1

\* C20: once the callback of a caller's dispatch has been called no timer of
\* the dispatch is pending and no step starts a further attempt, in
\* msx-node.js and in reqret of msx-browser.js.
C20_Step ==
  /\ \A c \in Calls :
       disp[C(c)].ncb >= 1 =>
          /\ disp[C(c)].timers = {}
          /\ disp'[C(c)].timers = {}
          /\ disp'[C(c)].nsend = disp[C(c)].nsend
          /\ disp'[C(c)].reqs = disp[C(c)].reqs
              \/ \E r \in disp[C(c)].reqs :
                   disp'[C(c)].reqs = (disp[C(c)].reqs \ {r}) \cup {[r EXCEPT !.aborted = TRUE]}
  /\ \A c \in Calls :
       bdisp[c].ncb >= 1 =>
          /\ bdisp[c].timers = {}
          /\ bdisp'[c].timers = {}
          /\ bdisp'[c].nsend = bdisp[c].nsend

C20_NothingAfterCallback == [][C20_Step]_vars

\* the second attempt succeeded and a later event found the dispatch done
C20_Witness ==
  \E c \in Calls :
    LET x == disp[C(c)]
    IN /\ x.viaRetry /\ x.nsend = 2 /\ x.ncb = 1 /\ Falsy(x.err)
       /\ x.ndisc >= 1 /\ x.timers = {}

\* the step is the timeout event of the request xhr of the browser's
\* dispatch that goes from x to y
BrowserTimedOut(x, y, xhr) ==
  /\ xhr \in x.xhrs /\ ~xhr.timedout
  /\ \E z \in y.xhrs : z.ndx = xhr.ndx /\ z.timedout

\* C12: an attempt that ends by its timeout, with entries of the schedule
\* left, is followed by a further attempt: the step sets the timer of the
\* next attempt and does not call the caller's callback, for req.setTimeout
\* of msx-node.js and for xhr.ontimeout of msx-browser.js.
C12_Step ==
  /\ \A d \in DispIds :
       LET x == disp[d]
           y == disp'[d]
       IN \A r \in x.reqs :
            (TimedOut(x, y, r) /\ r.ndx \notin x.called
               /\ x.viaRetry /\ r.ndx < Len(x.schedule)) =>
                 /\ y.ncb = x.ncb
                 /\ \E t \in y.timers : t.ndx = r.ndx + 1
  /\ \A c \in Calls :
       LET x == bdisp[c]
           y == bdisp'[c]
       IN \A xhr \in x.xhrs :
            (BrowserTimedOut(x, y, xhr) /\ ~xhr.called
               /\ x.viaRetry /\ xhr.ndx < Len(x.retry.seq)) =>
                 /\ y.ncb = x.ncb
                 /\ \E t \in y.timers : t.ndx = xhr.ndx + 1

C12_TimeoutRetried == [][C12_Step]_vars

\* what handleResponse may hand on for a DONE ready-state change
DoneOutcomes ==
  {handleResponse(rsp[1], rsp[2]) : rsp \in BrowserResponses}

\* the step is an event (DONE or timeout) of the request xhr of the
\* browser's dispatch that goes from x to y
BrowserEvent(x, y, xhr) ==
  /\ xhr \in x.xhrs
  /\ \E z \in y.xhrs :
       /\ z.ndx = xhr.ndx
       /\ (z.done /\ ~xhr.done) \/ (z.timedout /\ ~xhr.timedout)

\* C16: of the invocations of a wrapper made by callOnceOnly the first, and
\* only the first, is passed on with its arguments (to the caller's callback
\* for 'once:', to the retry loop otherwise) and the later ones are
\* discarded; and with the first send_ of msx-browser.js the first event of
\* a request, DONE or timeout, is the one that is classified, and an event
\* that finds called set changes nothing.
C16_Step ==
  /\ (runtime = "guard" /\ invs # <<>>) =>
        LET x == disp[C(1)]
            a == invs[1]
        IN /\ 0 \in x.called
           /\ x.ndisc = Len(invs) - 1
           /\ IF ~x.viaRetry \/ Falsy(a.err) \/ a.err.noretry
                THEN x.ncb = 1 /\ x.err = a.err /\ x.res = a.res /\ x.delays = <<>>
                ELSE x.ncb = 0 /\ x.delays = <<1>>
  /\ \A c \in Calls :
       LET x == bdisp[c]
           y == bdisp'[c]
       IN \A xhr \in x.xhrs :
            (x.sendv = 1 /\ BrowserEvent(x, y, xhr)) =>
               IF xhr.called
                 THEN y = [x EXCEPT !.xhrs = y.xhrs, !.ndisc = @ + 1]
                 ELSE /\ y.ndisc = x.ndisc
                      /\ \A z \in y.xhrs : z.ndx = xhr.ndx => z.called
                      /\ IF \E z \in y.xhrs : z.ndx = xhr.ndx /\ z.timedout
                           THEN y.aerr = [MsgObj(defaultMsg) EXCEPT !.noretry = TRUE]
                           ELSE \E h \in DoneOutcomes :
                                  IF h.out = "throw" THEN y.threw
                                  ELSE IF h.out = "ok" THEN y.aerr = Null
                                  ELSE y.aerr = h.val

C16_FirstInvocationOnly == [][C16_Step]_vars

\* a request of the first send_ whose timeout came first and whose DONE
\* ready-state change was discarded
C16_Witness ==
  \E c \in Calls :
    LET x == bdisp[c]
    IN /\ x.sendv = 1 /\ x.ndisc = 1 /\ x.ncb = 1
       /\ x.err = [MsgObj(defaultMsg) EXCEPT !.noretry = TRUE]
       /\ \E xhr \in x.xhrs : xhr.done /\ xhr.timedout

\* the wrapper was invoked MaxInvocations times, first with an error of the
\* request, which went to the retry loop, and then with a response
C16_WitnessNode ==
  /\ runtime = "guard" /\ Len(invs) = MaxInvocations
  /\ invs[1].err = ErrorObj /\ Falsy(invs[2].err)
  /\ disp[C(1)].aerr = ErrorObj /\ disp[C(1)].ndisc = MaxInvocations - 1

\* the step is a call of msx for the dispatch that goes from x to y
Called(x, y) == ~x.started /\ y.started

\* C13: a call of msx whose set-up throws before it returns (a type that is
\* not a string; params that cannot be serialised, or options that the
\* request rejects, when the request of the first attempt is built within
\* the call) gives the exception to the caller's callback, once, within the
\* call; nothing is thrown out of msx, no timer is set and no request made.
C13_Step ==
  /\ \A c \in Calls :
       LET x == disp[C(c)]
           y == disp'[C(c)]
       IN (Called(x, y) /\ (~IsString(y.type)
                             \/ (y.params = "circular" /\ ROUTING_TABLE.defined
                                   /\ y.stype \in DOMAIN ROUTING_TABLE.map))) =>
             /\ y.ncb = 1 /\ y.err = ExceptionObj /\ y.res = Undefined
             /\ y.timers = {} /\ y.reqs = {} /\ y.delays = <<>>
             /\ ~y.thrown /\ crashed' = crashed
  /\ \A c \in Calls :
       LET x == bdisp[c]
           y == bdisp'[c]
       IN (Called(x, y) /\ (y.bad = "params"
                             \/ (y.bad = "options" /\ y.sendv = 1))) =>
             /\ y.ncb = 1 /\ y.err = StringErr /\ y.res = Undefined
             /\ y.timers = {} /\ y.xhrs = {} /\ y.delays = <<>>
             /\ ~y.thrown

C13_SetupExceptionCaught == [][C13_Step]_vars

\* msx was called with params that cannot be serialised, for a type that is
\* retried and has a route: the callback has the exception
C13_Witness ==
  \E c \in Calls :
    LET x == disp[C(c)]
    IN /\ x.started /\ x.viaRetry /\ x.params = "circular"
       /\ x.nsend = 1 /\ x.ncb = 1 /\ x.err = ExceptionObj /\ ~crashed

\* the same in msx-browser.js
C13_WitnessBrowser ==
  \E c \in Calls :
    /\ bdisp[c].started /\ bdisp[c].bad = "params" /\ bdisp[c].sendv = 2
    /\ bdisp[c].viaRetry /\ bdisp[c].ncb = 1 /\ bdisp[c].err = StringErr

\* the message of the response before handleResponse looks at it for
\* markup: the default for no body, msg of a JSON body, else the body
OriginalMsg(body) ==
  IF body = <<>> THEN defaultMsg
  ELSE IF JSONparse(body).ok THEN JSONparse(body).val.msg
  ELSE body

\* the number of the twelve markers that occur in msg, whatever the case
MarkerHits(msg) ==
  Cardinality({k \in 1..12 : Contains(ToLowerCase(msg), HtmlMarkers[k])})

\* C21: when handleResponse gives its callback an error, the error's msg
\* is the default message if the message of the response holds three or
\* more of the twelve markers, in any case of the letters, and is the
\* message of the response, unchanged, if it holds two or fewer.
C21_MarkupReplaced ==
  /\ Len(HtmlMarkers) = 12
  /\ MarkerHits(B_text) = 0 /\ MarkerHits(B_pre) = 2
  /\ MarkerHits(B_three) = 3 /\ MarkerHits(B_html) = 4
  /\ (runtime = "handle" /\ hr.done /\ hr.out = "err") =>
        /\ hr.status # 200
        /\ hr.val.msg = IF MarkerHits(OriginalMsg(hr.body)) >= 3 THEN defaultMsg
                        ELSE OriginalMsg(hr.body)

\* a 404 whose body holds exactly three markers, one in upper case, has
\* been given to the callback with the default message
C21_Witness ==
  /\ runtime = "handle" /\ hr.done /\ hr.out = "err"
  /\ hr.status = 404 /\ hr.body = B_three
  /\ hr.val.msg = defaultMsg /\ hr.val.noretry

\* the calls of send_ made for the callers' dispatches of other names
CallerSends ==
  {<<c, n>> \in Calls \X (1..5) :
     disp[C(c)].stype # S_routes /\ n <= disp[C(c)].nsend}

\* C22: a dispatch of '--routes', started by getRoutingTable or by a
\* caller, has made one request for each of its attempts (unless its
\* params cannot be written as JSON), each to ROUTING_TABLE_URL, whether
\* ROUTING_TABLE is populated or not, and none
\* of its lookups waits for or has started a '--routes' dispatch: the calls
\* of getRoutingTable are the one at load and at most one for each send_ of
\* another name.
C22_ReservedName ==
  /\ \A d \in DispIds :
       LET x == disp[d]
       IN (x.started /\ x.stype = S_routes /\ runtime = "node") =>
            /\ x.lookups = {}
            /\ \A r \in x.reqs :
                 /\ r.hostname = ROUTING_TABLE_URL.hostname
                 /\ r.port = ROUTING_TABLE_URL.port
            /\ x.params # "circular" =>
                 \A n \in 0..(x.nsend - 1) : \E r \in x.reqs : r.ndx = n
  /\ \A o \in Owners : disp[B(o)].started => disp[B(o)].stype = S_routes
  /\ \A c \in Calls :
       (disp[C(c)].started /\ disp[C(c)].stype = S_routes) => ~disp[B(c)].started
  /\ runtime = "node" => nboot <= 1 + Cardinality(CallerSends)

\* over a populated table a caller's dispatch of '--routes' has sent its
\* request to the registry and no '--routes' dispatch but the one of the
\* load was ever started
C22_Witness ==
  /\ ROUTING_TABLE.defined /\ nboot = 1
  /\ \E c \in Calls :
       /\ disp[C(c)].started /\ disp[C(c)].type = S_routes
       /\ disp[C(c)].nsend = 1 /\ disp[C(c)].lookups = {}
       /\ \E r \in disp[C(c)].reqs : r.port = 0 /\ r.hostname = "localhost"

\* the url of type at the location loc, and the url a request opened with
\* u goes to: a url without a host is one of the page's own server
UrlAt(loc, type) ==
  IF loc # <<>> /\ loc[Len(loc)] = "/" THEN loc \o type
  ELSE loc \o <<"/">> \o type
Resolve(u) == IF StartsWith(u, <<"/">>) THEN S_origin \o u ELSE u

\* the request r of call c gets its answer in this step
Answered(c, r) ==
  /\ r \in cdisp[c].xhrs /\ ~r.done
  /\ \E r2 \in cdisp'[c].xhrs : r2.id = r.id /\ r2.done

\* what the answer to the request with the id of r was
AnswerOf(c, r) == CHOOSE r2 \in cdisp'[c].xhrs : r2.id = r.id

\* the answer to the request r of call c is handled as a redirect to the
\* message of the response: no callback of the caller, no timer, the
\* message stored as LOCATIONS[type], and one new request, of the same
\* attempt ndx, opened with the type's url at that location
Redirected(c, r) ==
  LET x == cdisp[c]
      y == cdisp'[c]
      msg == OriginalMsg(AnswerOf(c, r).responseText)
  IN /\ y.ncb = x.ncb /\ y.timers = x.timers /\ y.delays = x.delays
     /\ ~y.threw
     /\ LOCATIONS'[x.type] = Loc(msg)
     /\ y.nsend = x.nsend + 1
     /\ \E n \in y.xhrs :
          /\ n.id = x.nsend /\ ~n.done /\ n.ndx = r.ndx /\ n.verb = x.verb
          /\ Resolve(n.url) = Resolve(UrlAt(msg, x.type))
          /\ y.xhrs = {q \in y.xhrs : q.id # n.id} \cup {n}
          /\ {q \in y.xhrs : q.id # n.id} = (x.xhrs \ {r}) \cup {AnswerOf(c, r)}

C23_Step ==
  \A c \in Calls : \A r \in cdisp[c].xhrs :
    (Answered(c, r) /\ AnswerOf(c, r).status = 300) => Redirected(c, r)

\* C23: in call-ms.js the answer with status 300 to a request is handled
\* in that step as a redirect and not as a retry: the callback of the
\* retry loop gets nothing (no callback of the caller, no timer set), the
\* message of the response is stored as LOCATIONS[type], and a new
\* request of the same attempt ndx is sent to the type's url at that
\* location.
C23_RedirectNotRetry == [][C23_Step]_vars

\* the same for the answers with status 300 whose message is a string
C23_StepMsg ==
  \A c \in Calls : \A r \in cdisp[c].xhrs :
    (/\ Answered(c, r) /\ AnswerOf(c, r).status = 300
     /\ AnswerOf(c, r).responseText # B_objnomsg) => Redirected(c, r)

C23_RedirectOfMessage == [][C23_StepMsg]_vars

\* a redirect has been followed: the second request of an attempt went to
\* the stored location
C23_Witness ==
  \E c \in Calls :
    /\ cdisp[c].nredirect = 1 /\ cdisp[c].ncb = 0 /\ cdisp[c].timers = {}
    /\ LOCATIONS[cdisp[c].type] = Loc(S_locA)
    /\ \E r \in cdisp[c].xhrs : \E n \in cdisp[c].xhrs :
         /\ r.done /\ r.status = 300 /\ r.responseText = B_locA
         /\ ~n.done /\ n.ndx = r.ndx /\ n.id = r.id + 1
         /\ n.url = S_locA \o <<"/">> \o cdisp[c].type

\* the call c calls redirect in this step
Redirects(c) == cdisp'[c].nredirect = cdisp[c].nredirect + 1

\* the requests the call c sends in this step
Sent(c) == {n \in cdisp'[c].xhrs : n.id >= cdisp[c].nsend}

C25_Step ==
  \* a request sent for T by any call goes to the location the last
  \* redirect of T has stored, to the page's own server if there was none
  /\ \A c \in Calls : \A n \in Sent(c) :
       LET T == cdisp'[c].type
       IN Resolve(n.url) =
            IF LOCATIONS'[T].set THEN Resolve(UrlAt(LOCATIONS'[T].loc, T))
            ELSE UrlAt(S_origin, T)
  \* the location of T stays until a redirect of T, which leaves the
  \* locations of the other types alone
  /\ \A T \in CmsTypes :
       LOCATIONS'[T] # LOCATIONS[T] =>
         \E c \in Calls : Redirects(c) /\ cdisp[c].type = T
  /\ \A c \in Calls :
       Redirects(c) =>
         /\ LOCATIONS'[cdisp[c].type].set
         /\ \A T \in CmsTypes \ {cdisp[c].type} : LOCATIONS'[T] = LOCATIONS[T]

\* C25: in call-ms.js LOCATIONS is shared and persistent: once a redirect
\* of the type T has stored the location L, every request sent for T
\* afterwards, by any call and any attempt of its retry loop, goes to L
\* until another redirect of T replaces it, and a redirect of T leaves the
\* locations of all other types as they were.
C25_SharedLocation == [][C25_Step]_vars

\* a call in its retry loop that was never redirected has sent its second
\* attempt to the location another call's redirect stored for the type,
\* and the other type has no location
C25_Witness ==
  \E c \in Calls : \E o \in Calls \ {c} :
    /\ cdisp[c].type = S_mailer /\ cdisp[o].type = S_mailer
    /\ cdisp[c].nredirect = 0 /\ cdisp[o].nredirect = 1
    /\ LOCATIONS[S_mailer] = Loc(S_locB) /\ ~LOCATIONS[S_users].set
    /\ \E n \in cdisp[c].xhrs : n.ndx = 1 /\ n.url = S_locB \o S_mailer

\* the requests that have not emitted an event yet
Waiting ==
  {<<d, r>> \in DispIds \X UNION {disp[d].reqs : d \in DispIds} :
     r \in disp[d].reqs /\ r.ndx \notin disp[d].called}

\* the requests made so far where every request emits one event: those
\* that have emitted theirs and those that wait
Exchanges == nsignals + Cardinality(Waiting)

\* the requests made for the '--routes' dispatches of the caller's
\* dispatch: all but those of the '--routes' dispatch of the load
CallerExchanges == Exchanges - disp[B(0)].nsend

\* the most requests to the registry a dispatch of the type can cause
ExchangeBound(type) ==
  IF StartsWith(type, S_once) THEN Len(DefaultSchedule) + 1
  ELSE (Len(DefaultSchedule) + 1) * (Len(DefaultSchedule) + 1)

\* nothing is left to run for the dispatch of the caller c: no timer of
\* the dispatch or of its '--routes' dispatch, no request that waits
Quiet(c) ==
  /\ disp[C(c)].timers = {} /\ disp[B(c)].timers = {}
  /\ \A p \in Waiting : p[1] = B(0)

\* every step sends a request or is the event of one
Measure == Exchanges + nsignals

C24_Bounded ==
  \A c \in Single :
    LET x == disp[C(c)]
    IN x.started =>
         /\ CallerExchanges <= ExchangeBound(x.type)
         \* no request to the service, all requests to the registry
         /\ x.reqs = {}
         /\ \A d \in DispIds : \A r \in disp[d].reqs :
              r.hostname = ROUTING_TABLE_URL.hostname /\ r.port = ROUTING_TABLE_URL.port
         /\ ~ROUTING_TABLE.defined
         /\ x.ncb <= 1
         /\ x.ncb = 1 => (Truthy(x.err) /\ Quiet(c))
         /\ Quiet(c) => x.ncb = 1

\* C24: with ROUTING_TABLE unpopulated and a registry that fails every
\* request retryably, a dispatch causes at most (len(s)+1)*(len(s)+1)
\* requests to the registry, s the default schedule, and a 'once:'
\* dispatch at most len(s)+1; it makes no request to the service; every
\* step sends one of these requests or is the event of one, and once no
\* timer and no request of the dispatch is left the caller's callback has
\* got the failure, once.
C24_BoundedRegistryExchanges ==
  /\ []C24_Bounded
  /\ [][Measure' = Measure + 1]_vars

\* the failure has been delivered after exactly 25 requests to the
\* registry for a dispatch with the default schedule, 5 for a 'once:' one
C24_Witness ==
  /\ disp[C(1)].ncb = 1 /\ Truthy(disp[C(1)].err) /\ disp[C(1)].reqs = {}
  /\ disp[C(1)].type = S_mailer /\ disp[C(1)].nsend = 5
  /\ CallerExchanges = 25 /\ nboot = 6

C24_WitnessOnce ==
  /\ disp[C(1)].ncb = 1 /\ Truthy(disp[C(1)].err) /\ disp[C(1)].reqs = {}
  /\ disp[C(1)].type = S_once \o S_users /\ disp[C(1)].nsend = 1
  /\ CallerExchanges = 5 /\ nboot = 2

====
